---------------------------- MODULE Spec2Model ----------------------------
(***************************************************************************)
(* A model of chat_utils.py: the conversation log (add_message), the       *)
(* streaming dispatch (send_message) and the line prompt (get_input).      *)
(*                                                                         *)
(* Text is a sequence of tokens (one-character strings where the code      *)
(* looks at characters), so that "".join and f-strings are \o.             *)
(***************************************************************************)
EXTENDS Integers, Sequences, FiniteSets, TLC

VARIABLES
    messages,        \* the caller's conversation list (add_message's `messages`)
    add_call,        \* the arguments of the last add_message call, or NoCall
    add_before,      \* the conversation as it was when that call was made
    pc,              \* send_message: "idle", "streaming" (inside the for loop), "done"
    args,            \* send_message's enable_print and which observers were supplied
    origin_before,   \* the conversation as it was when send_message was called
    requests,        \* the messages argument of every client.chat.completions.create call
    stream_state,    \* the transport's stream: "none", "open", "exhausted", "raised"
    delivered,       \* the chunks the for loop has taken from the stream, in order
    thinking_log,    \* send_message's list of reasoning fragments
    full_response_content,   \* send_message's list of answer fragments
    is_thinking_started,
    is_answer_started,
    console,         \* what has been printed, in order
    calls,           \* the observer invocations, in order
    result,          \* <<>> until send_message returns, then <<answer, thinking>>
    gi_pc,           \* get_input: "idle", "reading" (inside the while loop), "done"
    lines,           \* get_input's list of accumulated lines
    typed,           \* every line input() has returned, in order
    dialogs,         \* what each select_file_dialog call returned, in order
    gi_result,       \* <<>> until get_input returns, then <<text, path or None>>
    sv_pc,           \* the export: "idle", "saved" (save_message returned), "loaded"
    save_call,       \* the arguments of the save_message call
    disk_file,       \* <<>> or the one file save_message wrote: its path and text
    load_call,       \* the load_message call: its path, and whether the read succeeds
    loaded           \* <<>> until load_message returns, then the value it returns

convVars == <<messages, add_call, add_before>>
sendVars == <<pc, args, origin_before, requests, stream_state, delivered,
              thinking_log, full_response_content, is_thinking_started,
              is_answer_started, console, calls, result>>
inputVars == <<gi_pc, lines, typed, dialogs, gi_result>>
saveVars == <<sv_pc, save_call, disk_file, load_call, loaded>>
vars == <<convVars, sendVars, inputVars, saveVars>>

-----------------------------------------------------------------------------
(* Bounds of the model                                                     *)

MaxMsgs == 2
MaxChunks == 2
MaxLines == 3

-----------------------------------------------------------------------------
(* Python values                                                           *)

PyNone == [t |-> "None", s |-> <<>>, parts |-> <<>>]
PyStr(s) == [t |-> "str", s |-> s, parts |-> <<>>]
PyList(parts) == [t |-> "list", s |-> <<>>, parts |-> parts]
\* Python truthiness of an Optional[str]: None and "" are falsy
Truthy(v) == v.t = "str" /\ v.s # <<>>

RECURSIVE Join(_)
\* "".join(list)
Join(list) == IF list = <<>> THEN <<>> ELSE Head(list) \o Join(Tail(list))

Upper == <<"A","B","C","D","E","F","G","H","I","J","K","L","M",
           "N","O","P","Q","R","S","T","U","V","W","X","Y","Z">>
LowerOf == <<"a","b","c","d","e","f","g","h","i","j","k","l","m",
             "n","o","p","q","r","s","t","u","v","w","x","y","z">>
LowerChar(c) ==
    IF \E i \in 1..26 : Upper[i] = c
    THEN LowerOf[CHOOSE i \in 1..26 : Upper[i] = c]
    ELSE c
\* str.lower()
Lower(s) == [i \in 1..Len(s) |-> LowerChar(s[i])]

-----------------------------------------------------------------------------
(* Roles and the supported image types (chat_utils.py, the constants)      *)

ROLE_USER == "user"
ROLE_ASSISTANT == "assistant"
ROLE_SYSTEM == "system"
ROLE_THINKING == "thinking"
ROLE_DEBUG == "debug"
Roles == {ROLE_USER, ROLE_ASSISTANT, ROLE_SYSTEM, ROLE_THINKING, ROLE_DEBUG}

ExtJpg == <<".","j","p","g">>
ExtJpeg == <<".","j","p","e","g">>
ExtPng == <<".","p","n","g">>
ExtGif == <<".","g","i","f">>
ExtWebp == <<".","w","e","b","p">>
SupportedExts == {ExtJpg, ExtJpeg, ExtPng, ExtGif, ExtWebp}
\* SUPPORTED_IMAGE_MIMETYPES.get(ext, 'image/jpeg')
MimeOf(ext) ==
    CASE ext = ExtJpg -> <<"image/jpeg">>
      [] ext = ExtJpeg -> <<"image/jpeg">>
      [] ext = ExtPng -> <<"image/png">>
      [] ext = ExtGif -> <<"image/gif">>
      [] ext = ExtWebp -> <<"image/webp">>
      [] OTHER -> <<"image/jpeg">>


-----------------------------------------------------------------------------
(* The local files add_message may be pointed at                           *)

PathPng == <<"a",".","p","n","g">>
PathJPG == <<"p","/","B",".","J","P","G">>
PathBmp == <<"c",".","b","m","p">>
PathGone == <<"g",".","g","i","f">>
PathDir == <<"d",".","w","e","b","p">>
Paths == {PathPng, PathJPG, PathBmp, PathGone, PathDir}
\* what open(path, "rb") and read() do: the bytes, FileNotFoundError or
\* another IOError (a directory, no permission)
FileSystem(path) ==
    CASE path = PathPng -> [open |-> "ok", data |-> <<137, 80, 78>>]
      [] path = PathJPG -> [open |-> "ok", data |-> <<255, 216>>]
      [] path = PathBmp -> [open |-> "ok", data |-> <<66, 77, 0, 1>>]
      [] path = PathDir -> [open |-> "IOError", data |-> <<>>]
      [] OTHER -> [open |-> "FileNotFoundError", data |-> <<>>]

RECURSIVE LastIndexOf(_, _)
\* str.rfind(c), 0 when c does not occur (positions are 1-based here)
LastIndexOf(s, c) ==
    IF s = <<>> THEN 0
    ELSE IF s[Len(s)] = c THEN Len(s)
    ELSE LastIndexOf(SubSeq(s, 1, Len(s) - 1), c)

\* os.path.splitext(p)[1]: the part from the last dot of the last path
\* component, unless that component's dots are all leading ones
SplitExt(p) ==
    LET sepIndex == LastIndexOf(p, "/")
        dotIndex == LastIndexOf(p, ".")
    IN  IF dotIndex > sepIndex
           /\ \E k \in (sepIndex + 1)..(dotIndex - 1) : p[k] # "."
        THEN SubSeq(p, dotIndex, Len(p))
        ELSE <<>>

B64Alphabet ==
    <<"A","B","C","D","E","F","G","H","I","J","K","L","M","N","O","P",
      "Q","R","S","T","U","V","W","X","Y","Z","a","b","c","d","e","f",
      "g","h","i","j","k","l","m","n","o","p","q","r","s","t","u","v",
      "w","x","y","z","0","1","2","3","4","5","6","7","8","9","+","/">>

RECURSIVE B64Encode(_)
\* base64.b64encode(bytes).decode('utf-8')
B64Encode(bytes) ==
    IF bytes = <<>> THEN <<>>
    ELSE LET n == Len(bytes)
             b1 == bytes[1]
             b2 == IF n >= 2 THEN bytes[2] ELSE 0
             b3 == IF n >= 3 THEN bytes[3] ELSE 0
             c1 == b1 \div 4
             c2 == (b1 % 4) * 16 + (b2 \div 16)
             c3 == (b2 % 16) * 4 + (b3 \div 64)
             c4 == b3 % 64
         IN  << B64Alphabet[c1 + 1],
                B64Alphabet[c2 + 1],
                IF n >= 2 THEN B64Alphabet[c3 + 1] ELSE "=",
                IF n >= 3 THEN B64Alphabet[c4 + 1] ELSE "=" >>
             \o (IF n > 3 THEN B64Encode(SubSeq(bytes, 4, n)) ELSE <<>>)

\* _image_to_base64: [ok, mime_type, data]; ok = FALSE is the None it returns
\* when the file is not found or cannot be read
image_to_base64(image_path) ==
    LET ext == Lower(SplitExt(image_path))
        mime_type == MimeOf(ext)
        file == FileSystem(image_path)
    IN  IF file.open = "ok"
        THEN [ok |-> TRUE, mime_type |-> mime_type, data |-> B64Encode(file.data)]
        ELSE [ok |-> FALSE, mime_type |-> <<>>, data |-> <<>>]

-----------------------------------------------------------------------------
(* Messages                                                                *)

TextPart(text) == [type |-> "text", text |-> text, url |-> <<>>]
ImagePart(url) == [type |-> "image_url", text |-> <<>>, url |-> url]
Message(role, content) == [role |-> role, content |-> content]
\* f"data:{mime_type};base64,{base64_image}"
DataUrl(mime_type, base64_image) ==
    <<"data:">> \o mime_type \o <<";base64,">> \o base64_image

HasImagePart(msg) ==
    /\ msg.content.t = "list"
    /\ \E k \in 1..Len(msg.content.parts) : msg.content.parts[k].type = "image_url"

\* add_message without the role test of line 113
AddMessageAnyRole(msgs, role, content, image_path) ==
    IF Truthy(image_path)
    THEN LET encoded_data == image_to_base64(image_path.s)
         IN  IF encoded_data.ok
             THEN Append(msgs,
                    Message(role,
                      PyList(<< TextPart(content.s),
                                ImagePart(DataUrl(encoded_data.mime_type,
                                                  encoded_data.data)) >>)))
             ELSE msgs
    ELSE Append(msgs, Message(role, content))

\* add_message falling back to a text message when the image cannot be encoded
AddMessageTextFallback(msgs, role, content, image_path) ==
    IF Truthy(image_path)
    THEN IF role # ROLE_USER
         THEN msgs
         ELSE LET encoded_data == image_to_base64(image_path.s)
              IN  IF encoded_data.ok
                  THEN Append(msgs,
                         Message(ROLE_USER,
                           PyList(<< TextPart(content.s),
                                     ImagePart(DataUrl(encoded_data.mime_type,
                                                       encoded_data.data)) >>)))
                  ELSE Append(msgs, Message(role, content))
    ELSE Append(msgs, Message(role, content))

\* the list after add_message(messages, role, content, image_path)
AddMessageResult(msgs, role, content, image_path) ==
    IF Truthy(image_path)
    THEN IF role # ROLE_USER
         THEN msgs
         ELSE LET encoded_data == image_to_base64(image_path.s)
              IN  IF encoded_data.ok
                  THEN Append(msgs,
                         Message(ROLE_USER,
                           PyList(<< TextPart(content.s),
                                     ImagePart(DataUrl(encoded_data.mime_type,
                                                       encoded_data.data)) >>)))
                  ELSE msgs
    ELSE Append(msgs, Message(role, content))

\* what the callers pass to add_message
Contents == {PyStr(<<"h","i">>), PyStr(<<>>)}
ImagePathArgs == {PyNone, PyStr(<<>>)} \cup {PyStr(p) : p \in Paths}

add_message(role, content, image_path) ==
    /\ Len(messages) < MaxMsgs
    /\ add_before' = messages
    /\ add_call' = <<[role |-> role, content |-> content, image_path |-> image_path]>>
    /\ messages' = AddMessageResult(messages, role, content, image_path)
    /\ UNCHANGED <<sendVars, inputVars, saveVars>>

-----------------------------------------------------------------------------
(* send_message: sanitize, open the stream, drain it chunk by chunk        *)

\* valid_roles
valid_roles == {ROLE_USER, ROLE_ASSISTANT, ROLE_SYSTEM}

RECURSIVE SanitizeKeepsDebug(_)
\* a filter whose role set has debug in it
SanitizeKeepsDebug(origin_messages) ==
    IF origin_messages = <<>> THEN <<>>
    ELSE LET msg == Head(origin_messages)
         IN  (IF msg.role \in valid_roles \cup {ROLE_DEBUG}
              THEN <<[role |-> msg.role, content |-> msg.content]>>
              ELSE <<>>)
             \o SanitizeKeepsDebug(Tail(origin_messages))

RECURSIVE Sanitize(_)
\* the list comprehension that builds `messages` from origin_messages; the
\* entries of a conversation are dicts with both keys, so what decides is
\* msg["role"] in valid_roles
Sanitize(origin_messages) ==
    IF origin_messages = <<>> THEN <<>>
    ELSE LET msg == Head(origin_messages)
         IN  (IF msg.role \in valid_roles
              THEN <<[role |-> msg.role, content |-> msg.content]>>
              ELSE <<>>)
             \o Sanitize(Tail(origin_messages))

\* any() in place of all()
HasCallbacksAny(a) == a.thinking_callback \/ a.content_callback \/ a.stop_callback
\* has_callbacks = all(cb is not None for cb in [...])
HasCallbacks(a) == a.thinking_callback /\ a.content_callback /\ a.stop_callback

\* what print writes: each a text, as the fragments are
AssistantPrefix == <<"<robot> Assistant: ">>
ThinkingMarker == <<"<thinking> (thinking...)\n">>
AnswerMarker == <<"\n\n<check> (answer follows)\n">>
ErrorLine == <<"\n[ERROR] request failed">>
Newline == <<"\n">>

\* a chunk of the stream: choices is FALSE for an empty chunk.choices;
\* getattr(delta, name, None) gives None for an absent field
Chunk(choices, reasoning_content, content) ==
    [choices |-> choices, reasoning_content |-> reasoning_content, content |-> content]

\* the text the transport puts in the n-th chunk: the code looks at a fragment
\* only to see whether it is empty, so the fragments are taken pairwise distinct
Digits == <<"0","1","2","3","4","5","6","7","8","9">>
ReasoningText(n) == <<"r", Digits[n + 1]>>
AnswerText(n) == <<"a", Digits[n + 1]>>
\* a chunk without choices, a delta without fragments (absent, or empty), and
\* the deltas with a fragment on either channel or on both
ChunksAt(n) ==
    {Chunk(FALSE, PyNone, PyNone), Chunk(TRUE, PyStr(<<>>), PyStr(<<>>))}
    \cup {Chunk(TRUE, r, c) : r \in {PyNone, PyStr(ReasoningText(n))},
                              c \in {PyNone, PyStr(AnswerText(n))}}

\* an observer invocation: which callback, its argument, how many chunks the
\* loop had taken from the stream by then, and whether the observer raised
ObserverCall(cb, arg, n, raised) == [cb |-> cb, arg |-> arg, chunk |-> n, raised |-> raised]

Failure == <<PyNone, PyNone>>
\* the tuple send_message returns at line 383
ReturnPair(full_answer, full_thinking) == <<PyStr(full_answer), PyStr(full_thinking)>>

\* a fragment inserted at the front instead of appended
AccumulateFront(log, fragment) == <<fragment>> \o log
\* list.append of a fragment (lines 357 and 370)
Accumulate(log, fragment) == Append(log, fragment)

\* "is not None" in place of the truth test
TakesReasoningNotNone(chunk) == chunk.choices /\ chunk.reasoning_content.t = "str"
TakesAnswerNotNone(chunk) == chunk.choices /\ chunk.content.t = "str"
\* the tests of lines 343, 350 and 363 on a chunk
TakesReasoning(chunk) == chunk.choices /\ Truthy(chunk.reasoning_content)
TakesAnswer(chunk) == chunk.choices /\ Truthy(chunk.content)

\* lines 358-359 and 371-372: the fragment goes to its observer, if the set is full
FragmentCalls(has_callbacks, cb, fragment, n, raised) ==
    IF has_callbacks THEN <<ObserverCall(cb, <<fragment>>, n, raised)>> ELSE <<>>
\* the terminal notification given (thinking, answer) instead of (answer, thinking)
StopCallsSwapped(has_callbacks, pair, n, raised) ==
    IF has_callbacks
    THEN <<ObserverCall("stop_callback", <<pair[2].s, pair[1].s>>, n, raised)>>
    ELSE <<>>
\* lines 380-381: the terminal notification
StopCalls(has_callbacks, pair, n, raised) ==
    IF has_callbacks
    THEN <<ObserverCall("stop_callback", <<pair[1].s, pair[2].s>>, n, raised)>>
    ELSE <<>>

\* one more attempt when the request fails
CreateCallsRetry(request, create_ok) ==
    IF create_ok THEN <<request>> ELSE <<request, request>>
\* lines 328-332: the requests a dispatch sends
CreateCalls(request, create_ok) == <<request>>

\* the filter applied to the caller's list itself
OriginSanitizedInPlace(origin_messages) == Sanitize(origin_messages)
\* what send_message does to the caller's list: it only reads it
OriginAfterSend(origin_messages) == origin_messages

Printed(cond, text) == IF cond THEN <<text>> ELSE <<>>

\* lines 351-353: the thinking marker goes before the first reasoning fragment
ThinkingMarkerDue(thinking_started, enable_print) == ~thinking_started /\ enable_print
\* the answer marker whether or not the run had any reasoning
AnswerMarkerAlways(answer_started, thinking_started, enable_print) ==
    ~answer_started /\ enable_print
\* lines 364-366: the answer marker goes before the first answer fragment of a
\* run that had reasoning
AnswerMarkerDue(answer_started, thinking_started, enable_print) ==
    ~answer_started /\ thinking_started /\ enable_print

\* lines 316-340: the call, the sanitized request, create(), the prefix; when
\* create() raises, the except clause prints the error and returns (None, None)
SendStart(enable_print, thinking_callback, content_callback, stop_callback, create_ok) ==
    /\ pc = "idle"
    /\ args' = [enable_print |-> enable_print,
                thinking_callback |-> thinking_callback,
                content_callback |-> content_callback,
                stop_callback |-> stop_callback]
    /\ origin_before' = messages
    /\ messages' = OriginAfterSend(messages)
    /\ requests' = requests \o CreateCalls(Sanitize(messages), create_ok)
    /\ IF create_ok
       THEN /\ stream_state' = "open"
            /\ console' = console \o Printed(enable_print, AssistantPrefix)
            /\ pc' = "streaming"
            /\ result' = result
       ELSE /\ stream_state' = "raised"
            /\ console' = Append(console, ErrorLine)
            /\ pc' = "done"
            /\ result' = Failure
    /\ UNCHANGED <<add_call, add_before, delivered, thinking_log, full_response_content,
                   is_thinking_started, is_answer_started, calls, inputVars, saveVars>>

\* an except clause that returns two empty texts
ExceptReturnEmpty == ReturnPair(<<>>, <<>>)
\* lines 385-387: what send_message returns when an observer raises inside
\* the try block
ExceptReturn == Failure

\* lines 342-372: one iteration of the for loop on the next chunk. cb_raises
\* says which observer, if any, raises when this iteration invokes it: the
\* rest of the iteration is then skipped and the except clause runs
NextChunk(chunk, cb_raises) ==
    /\ pc = "streaming"
    /\ Len(delivered) < MaxChunks
    /\ LET n == Len(delivered) + 1
           has_callbacks == HasCallbacks(args)
           reasoning_chunk == chunk.reasoning_content
           answer_chunk == chunk.content
           takeR == TakesReasoning(chunk)
           r_raises == cb_raises = "thinking_callback"
           takeA == TakesAnswer(chunk) /\ ~r_raises
           c_raises == cb_raises = "content_callback"
           thinking_started == is_thinking_started \/ takeR
       IN  /\ r_raises => takeR /\ has_callbacks
           /\ c_raises => takeA /\ has_callbacks
           /\ delivered' = Append(delivered, chunk)
           /\ thinking_log' =
                 IF takeR THEN Accumulate(thinking_log, reasoning_chunk.s) ELSE thinking_log
           /\ full_response_content' =
                 IF takeA THEN Accumulate(full_response_content, answer_chunk.s)
                 ELSE full_response_content
           /\ is_thinking_started' = thinking_started
           /\ is_answer_started' = (is_answer_started \/ takeA)
           /\ console' = console
                 \o Printed(takeR /\ ThinkingMarkerDue(is_thinking_started, args.enable_print),
                            ThinkingMarker)
                 \o Printed(takeR /\ args.enable_print, reasoning_chunk.s)
                 \o Printed(takeA /\ AnswerMarkerDue(is_answer_started, thinking_started,
                                                     args.enable_print),
                            AnswerMarker)
                 \o Printed(takeA /\ args.enable_print, answer_chunk.s)
                 \o Printed(cb_raises # "none", ErrorLine)
           /\ calls' = calls
                 \o (IF takeR
                     THEN FragmentCalls(has_callbacks, "thinking_callback",
                                        reasoning_chunk.s, n, r_raises)
                     ELSE <<>>)
                 \o (IF takeA
                     THEN FragmentCalls(has_callbacks, "content_callback",
                                        answer_chunk.s, n, c_raises)
                     ELSE <<>>)
           /\ IF cb_raises = "none"
              THEN UNCHANGED <<pc, result>>
              ELSE pc' = "done" /\ result' = ExceptReturn
    /\ UNCHANGED <<convVars, inputVars, saveVars, args, origin_before, requests, stream_state>>

\* lines 374-383: the stream is exhausted; stop_raises says whether
\* stop_callback raises when invoked, which the except clause then handles
StreamEnd(stop_raises) ==
    /\ pc = "streaming"
    /\ stop_raises => HasCallbacks(args)
    /\ stream_state' = "exhausted"
    /\ LET full_answer == Join(full_response_content)
           full_thinking == Join(thinking_log)
           pair == ReturnPair(full_answer, full_thinking)
       IN  /\ console' = console \o Printed(args.enable_print, Newline)
                                 \o Printed(stop_raises, ErrorLine)
           /\ calls' = calls \o StopCalls(HasCallbacks(args), pair, Len(delivered),
                                          stop_raises)
           /\ result' = IF stop_raises THEN ExceptReturn ELSE pair
    /\ pc' = "done"
    /\ UNCHANGED <<convVars, inputVars, saveVars, args, origin_before, requests, delivered, thinking_log,
                   full_response_content, is_thinking_started, is_answer_started>>

\* an except clause that hands back what had accumulated
StreamRaiseReturnsPartial ==
    /\ pc = "streaming"
    /\ stream_state' = "raised"
    /\ console' = Append(console, ErrorLine)
    /\ result' = ReturnPair(Join(full_response_content), Join(thinking_log))
    /\ pc' = "done"
    /\ UNCHANGED <<convVars, inputVars, saveVars, args, origin_before, requests, delivered, thinking_log,
                   full_response_content, is_thinking_started, is_answer_started, calls>>

\* lines 342, 385-387: the transport raises while the loop waits for a chunk
StreamRaise ==
    /\ pc = "streaming"
    /\ stream_state' = "raised"
    /\ console' = Append(console, ErrorLine)
    /\ result' = Failure
    /\ pc' = "done"
    /\ UNCHANGED <<convVars, inputVars, saveVars, args, origin_before, requests, delivered, thinking_log,
                   full_response_content, is_thinking_started, is_answer_started, calls>>

CallbackOutcomes == {"none", "thinking_callback", "content_callback"}

-----------------------------------------------------------------------------
(* get_input: the line prompt with the /image and /file commands           *)

Whitespace == {" ", "\t", "\n"}
RECURSIVE LStrip(_)
LStrip(s) == IF s # <<>> /\ Head(s) \in Whitespace THEN LStrip(Tail(s)) ELSE s
RECURSIVE RStrip(_)
RStrip(s) ==
    IF s # <<>> /\ s[Len(s)] \in Whitespace THEN RStrip(SubSeq(s, 1, Len(s) - 1)) ELSE s
\* str.strip()
Strip(s) == RStrip(LStrip(s))

RECURSIVE JoinLines(_)
\* "\n".join(lines)
JoinLines(list) ==
    IF list = <<>> THEN <<>>
    ELSE IF Len(list) = 1 THEN Head(list)
    ELSE Head(list) \o <<"\n">> \o JoinLines(Tail(list))

CmdImage == <<"/","i","m","a","g","e">>
CmdFile == <<"/","f","i","l","e">>
\* the command test without the trimming
CommandNoStrip(line) == Lower(line)
\* line 456: command = line.strip().lower()
Command(line) == Lower(Strip(line))
\* line 458: command in ('/image', '/file')
IsCommand(line) == Command(line) \in {CmdImage, CmdFile}

\* lines 447-452: the prompt is printed and the list starts empty
GetInputStart ==
    /\ gi_pc = "idle"
    /\ gi_pc' = "reading"
    /\ lines' = <<>>
    /\ UNCHANGED <<convVars, sendVars, saveVars, typed, dialogs, gi_result>>

\* lines 455-469: input() returns a line; on a command the dialog opens and
\* returns filepath ("" when cancelled), else the line is kept
ReadLine(line, filepath) ==
    /\ gi_pc = "reading"
    /\ Len(typed) < MaxLines
    /\ typed' = Append(typed, line)
    /\ IF IsCommand(line)
       THEN /\ dialogs' = Append(dialogs, filepath)
            /\ lines' = lines
            /\ IF filepath # <<>>
               THEN /\ gi_result' = <<PyStr(JoinLines(lines)), PyStr(filepath)>>
                    /\ gi_pc' = "done"
               ELSE UNCHANGED <<gi_result, gi_pc>>
       ELSE /\ lines' = Append(lines, line)
            /\ UNCHANGED <<dialogs, gi_result, gi_pc>>
    /\ UNCHANGED <<convVars, sendVars, saveVars>>

\* lines 470-473: input() raises EOFError
EndOfInput ==
    /\ gi_pc = "reading"
    /\ gi_result' = <<PyStr(JoinLines(lines)), PyNone>>
    /\ gi_pc' = "done"
    /\ UNCHANGED <<convVars, sendVars, saveVars, lines, typed, dialogs>>

InputIdle ==
    /\ gi_pc = "idle"
    /\ lines = <<>>
    /\ typed = <<>>
    /\ dialogs = <<>>
    /\ gi_result = <<>>

\* what the user types, and what the dialog returns
TypedLines ==
    { <<"/","i","m","a","g","e">>,
      <<" ","/","I","m","a","g","e","\t">>,
      <<"/","F","I","L","E">>,
      <<"/","f","i","l","e","s">>,
      <<"h","i">>,
      <<" ">>,
      <<>> }
DialogResults == {<<>>, PathPng}

RECURSIVE SeqsUpTo(_, _)
SeqsUpTo(S, n) ==
    IF n = 0 THEN {<<>>}
    ELSE LET shorter == SeqsUpTo(S, n - 1)
         IN  shorter \cup {Append(q, e) : q \in shorter, e \in S}

-----------------------------------------------------------------------------
(* save_message and load_message: the JSON export and its reading back     *)

\* the values json.dump takes and json.load gives: None, str, list, dict
JNull == [k |-> "null", s |-> <<>>, keys |-> <<>>, items |-> <<>>]
JStr(s) == [k |-> "str", s |-> s, keys |-> <<>>, items |-> <<>>]
JList(items) == [k |-> "list", s |-> <<>>, keys |-> <<>>, items |-> items]
JDict(keys, items) == [k |-> "dict", s |-> <<>>, keys |-> keys, items |-> items]

\* the Python object a content part is
PartObject(part) ==
    IF part.type = "text"
    THEN JDict(<< <<"type">>, <<"text">> >>, <<JStr(<<"text">>), JStr(part.text)>>)
    ELSE JDict(<< <<"type">>, <<"image_url">> >>,
               <<JStr(<<"image_url">>), JDict(<< <<"url">> >>, <<JStr(part.url)>>)>>)
ContentObject(content) ==
    CASE content.t = "None" -> JNull
      [] content.t = "str" -> JStr(content.s)
      [] content.t = "list" ->
            JList([i \in 1..Len(content.parts) |-> PartObject(content.parts[i])])
\* {"role": role, "content": content}
MessageObject(msg) ==
    JDict(<< <<"role">>, <<"content">> >>, <<JStr(<<msg.role>>), ContentObject(msg.content)>>)
MessagesObject(msgs) == JList([i \in 1..Len(msgs) |-> MessageObject(msgs[i])])

\* characters outside ASCII are written by their code point: the control
\* character ESC and a CJK letter
Esc == "<U+001B>"
Cjk == "<U+4F60>"
ControlChars == {"\n", "\t", Esc}

\* an encoder that writes every character as it is
EscapeCharNone(c) == <<c>>
\* json.dump with ensure_ascii=False: the quote, the backslash and the
\* control characters are escaped, every other character is written as it is
EscapeChar(c) ==
    CASE c = "\"" -> <<"\\", "\"">>
      [] c = "\\" -> <<"\\", "\\">>
      [] c = "\n" -> <<"\\", "n">>
      [] c = "\t" -> <<"\\", "t">>
      [] c = Esc -> <<"\\", "u", "0", "0", "1", "b">>
      [] OTHER -> <<c>>
RECURSIVE EscapeText(_)
EscapeText(s) == IF s = <<>> THEN <<>> ELSE EscapeChar(Head(s)) \o EscapeText(Tail(s))
EncodeString(s) == <<"\"">> \o EscapeText(s) \o <<"\"">>

\* indent=4
IndentWidth == 4
Indent(level) == <<"\n">> \o [i \in 1..(IndentWidth * level) |-> " "]

RECURSIVE Dumps(_, _), DumpItems(_, _), DumpMembers(_, _, _)
\* json.dump(messages, f, ensure_ascii=False, indent=4): the text of a value
\* nested level deep
Dumps(v, level) ==
    CASE v.k = "null" -> <<"null">>
      [] v.k = "str" -> EncodeString(v.s)
      [] v.k = "list" ->
            IF v.items = <<>> THEN <<"[", "]">>
            ELSE <<"[">> \o DumpItems(v.items, level + 1) \o Indent(level) \o <<"]">>
      [] v.k = "dict" ->
            IF v.items = <<>> THEN <<"{", "}">>
            ELSE <<"{">> \o DumpMembers(v.keys, v.items, level + 1) \o Indent(level)
                 \o <<"}">>
DumpItems(items, level) ==
    Indent(level) \o Dumps(Head(items), level)
    \o (IF Len(items) = 1 THEN <<>> ELSE <<",">> \o DumpItems(Tail(items), level))
DumpMembers(keys, items, level) ==
    Indent(level) \o EncodeString(Head(keys)) \o <<":", " ">> \o Dumps(Head(items), level)
    \o (IF Len(items) = 1 THEN <<>>
        ELSE <<",">> \o DumpMembers(Tail(keys), Tail(items), level))

\* json.load: a parse gives the value and the text after it, or fails
ParseError == [ok |-> FALSE, v |-> JNull, rest |-> <<>>]
ParseOk(v, rest) == [ok |-> TRUE, v |-> v, rest |-> rest]
JsonWhitespace == {" ", "\n", "\t", "\r"}
RECURSIVE SkipWhitespace(_)
SkipWhitespace(toks) ==
    IF toks # <<>> /\ Head(toks) \in JsonWhitespace THEN SkipWhitespace(Tail(toks))
    ELSE toks

\* the character a two-character escape stands for
Unescape(code) ==
    CASE code = "\"" -> "\""
      [] code = "\\" -> "\\"
      [] code = "/" -> "/"
      [] code = "n" -> "\n"
      [] code = "t" -> "\t"
      [] code = "r" -> "\r"
SimpleEscapes == {"\"", "\\", "/", "n", "t", "r"}

RECURSIVE ScanString(_, _)
\* the string whose opening quote was just read; acc is what was read of it
ScanString(toks, acc) ==
    IF toks = <<>> THEN ParseError
    ELSE LET c == Head(toks)
             t == Tail(toks)
         IN  IF c = "\"" THEN ParseOk(JStr(acc), t)
             ELSE IF c = "\\"
             THEN IF t = <<>> THEN ParseError
                  ELSE IF Head(t) \in SimpleEscapes
                  THEN ScanString(Tail(t), Append(acc, Unescape(Head(t))))
                  ELSE IF Len(t) >= 5 /\ SubSeq(t, 1, 5) = <<"u", "0", "0", "1", "b">>
                  THEN ScanString(SubSeq(t, 6, Len(t)), Append(acc, Esc))
                  ELSE ParseError
             ELSE IF c \in ControlChars THEN ParseError
             ELSE ScanString(t, Append(acc, c))

RECURSIVE ParseValue(_), ParseItems(_, _), ParseMembers(_, _, _)
ParseValue(toks) ==
    LET t == SkipWhitespace(toks)
    IN  IF t = <<>> THEN ParseError
        ELSE CASE Head(t) = "null" -> ParseOk(JNull, Tail(t))
               [] Head(t) = "\"" -> ScanString(Tail(t), <<>>)
               [] Head(t) = "[" ->
                     LET u == SkipWhitespace(Tail(t))
                     IN  IF u # <<>> /\ Head(u) = "]" THEN ParseOk(JList(<<>>), Tail(u))
                         ELSE ParseItems(u, <<>>)
               [] Head(t) = "{" ->
                     LET u == SkipWhitespace(Tail(t))
                     IN  IF u # <<>> /\ Head(u) = "}"
                         THEN ParseOk(JDict(<<>>, <<>>), Tail(u))
                         ELSE ParseMembers(u, <<>>, <<>>)
               [] OTHER -> ParseError
\* the elements of an array after its "[" or after a ","
ParseItems(toks, acc) ==
    LET r == ParseValue(toks)
        t == SkipWhitespace(r.rest)
    IN  IF ~r.ok \/ t = <<>> THEN ParseError
        ELSE IF Head(t) = "," THEN ParseItems(Tail(t), Append(acc, r.v))
        ELSE IF Head(t) = "]" THEN ParseOk(JList(Append(acc, r.v)), Tail(t))
        ELSE ParseError
\* the members of an object after its "{" or after a ","
ParseMembers(toks, keys, items) ==
    LET t == SkipWhitespace(toks)
    IN  IF t = <<>> \/ Head(t) # "\"" THEN ParseError
        ELSE LET key == ScanString(Tail(t), <<>>)
                 u == SkipWhitespace(key.rest)
             IN  IF ~key.ok \/ u = <<>> \/ Head(u) # ":" THEN ParseError
                 ELSE LET r == ParseValue(Tail(u))
                          w == SkipWhitespace(r.rest)
                      IN  IF ~r.ok \/ w = <<>> THEN ParseError
                          ELSE IF Head(w) = ","
                          THEN ParseMembers(Tail(w), Append(keys, key.v.s),
                                            Append(items, r.v))
                          ELSE IF Head(w) = "}"
                          THEN ParseOk(JDict(Append(keys, key.v.s), Append(items, r.v)),
                                       Tail(w))
                          ELSE ParseError
\* json.load(f): one value and nothing but whitespace after it
JsonLoad(text) ==
    LET r == ParseValue(text)
    IN  IF r.ok /\ SkipWhitespace(r.rest) = <<>> THEN r ELSE ParseError

DEFAULT_CHAT_HISTORY_DIR == <<"chat_history">>
\* datetime.now().strftime('%Y%m%d_%H%M%S')
Timestamp == <<"20260101_120000">>
\* the five-character default prefix, Chinese for "untitled chat"
DefaultPrefix == <<"<U+672A>", "<U+547D>", "<U+540D>", "<U+804A>", "<U+5929>">>
PrefixLength == 10
UnsafeChars == {"\\", "/", "*", "?", ":", "\"", "<", ">", "|"}

RECURSIVE FirstTextPart(_)
\* lines 155-158: the first text part that is not blank, trimmed
FirstTextPart(parts) ==
    IF parts = <<>> THEN <<>>
    ELSE IF Head(parts).type = "text" /\ Strip(Head(parts).text) # <<>>
    THEN Strip(Head(parts).text)
    ELSE FirstTextPart(Tail(parts))
RECURSIVE FirstUserText(_)
\* lines 147-160: the text of the first user message that has one
FirstUserText(msgs) ==
    IF msgs = <<>> THEN <<>>
    ELSE LET content == Head(msgs).content
             found == IF Head(msgs).role # ROLE_USER THEN <<>>
                      ELSE IF content.t = "str" THEN Strip(content.s)
                      ELSE IF content.t = "list" THEN FirstTextPart(content.parts)
                      ELSE <<>>
         IN  IF found # <<>> THEN found ELSE FirstUserText(Tail(msgs))
\* re.sub(r'[\\/*?:"<>|]', '_', prefix).strip()
SafePrefix(prefix) ==
    Strip([i \in 1..Len(prefix) |-> IF prefix[i] \in UnsafeChars THEN "_" ELSE prefix[i]])
generate_default_filename(msgs) ==
    LET first_user_text == FirstUserText(msgs)
        prefix == IF first_user_text # <<>>
                  THEN SubSeq(first_user_text, 1,
                              IF Len(first_user_text) < PrefixLength
                              THEN Len(first_user_text) ELSE PrefixLength)
                  ELSE DefaultPrefix
        safe_prefix == SafePrefix(prefix)
    IN  (IF safe_prefix = <<>> THEN DefaultPrefix ELSE safe_prefix) \o <<"_">> \o Timestamp

RECURSIVE RStripSep(_)
RStripSep(s) ==
    IF s # <<>> /\ s[Len(s)] = "/" THEN RStripSep(SubSeq(s, 1, Len(s) - 1)) ELSE s
\* os.path.dirname
DirName(p) ==
    LET head == SubSeq(p, 1, LastIndexOf(p, "/"))
    IN  IF RStripSep(head) = <<>> THEN head ELSE RStripSep(head)
\* os.path.join(DEFAULT_CHAT_HISTORY_DIR, f"{base_name}.json")
DefaultPath(msgs) ==
    DEFAULT_CHAT_HISTORY_DIR \o <<"/">> \o generate_default_filename(msgs) \o <<".json">>

PathOut == <<"o", "u", "t", "/", "c", ".", "j", "s", "o", "n">>
PathBare == <<"c", ".", "j", "s", "o", "n">>
OutputFilenames == {PyNone, PyStr(PathOut), PyStr(PathBare)}

\* lines 183-193: save_message(messages, output_filename). os.makedirs raises
\* FileNotFoundError on the empty directory name of a bare file name; write_ok
\* says whether open() succeeds. Either error is caught and nothing is written
save_message(output_filename, write_ok) ==
    /\ sv_pc = "idle"
    /\ LET path == IF ~Truthy(output_filename) THEN DefaultPath(messages)
                   ELSE output_filename.s
           made == DirName(path) # <<>>
       IN  disk_file' = IF made /\ write_ok
                   THEN <<[path |-> path, text |-> Dumps(MessagesObject(messages), 0)]>>
                   ELSE <<>>
    /\ save_call' = <<[messages |-> messages, output_filename |-> output_filename]>>
    /\ sv_pc' = "saved"
    /\ UNCHANGED <<convVars, sendVars, inputVars, load_call, loaded>>

\* lines 207-216: load_message(input_filename). read_ok says whether the file
\* can be opened and read; a file that is missing, unreadable or not JSON
\* gives the empty list
load_message(input_filename, read_ok) ==
    /\ sv_pc = "saved"
    /\ LET exists == disk_file # <<>> /\ disk_file[1].path = input_filename
           parsed == JsonLoad(disk_file[1].text)
       IN  loaded' = <<IF exists /\ read_ok /\ parsed.ok THEN parsed.v ELSE JList(<<>>)>>
    /\ load_call' = <<[input_filename |-> input_filename, read_ok |-> read_ok]>>
    /\ sv_pc' = "loaded"
    /\ UNCHANGED <<convVars, sendVars, inputVars, save_call, disk_file>>

SaveIdle ==
    /\ sv_pc = "idle"
    /\ save_call = <<>>
    /\ disk_file = <<>>
    /\ load_call = <<>>
    /\ loaded = <<>>

\* a text with the characters the encoder escapes and the ones JSON uses
SpecialText == <<"a", "\"", "\\", "\n", "\t", Esc, Cjk, " ", "n", "[", ",", "}">>
\* the conversations an export is given: every role, plain and multi-part
\* content
SaveEntries ==
    {Message(r, PyStr(<<"h","i">>)) : r \in Roles}
    \cup {AddMessageResult(<<>>, ROLE_USER, PyStr(<<"h","i">>), PyStr(PathPng))[1],
          Message(ROLE_DEBUG, PyStr(SpecialText)),
          Message(ROLE_ASSISTANT, PyStr(<<>>))}
SavedConversations == SeqsUpTo(SaveEntries, MaxMsgs)

-----------------------------------------------------------------------------
SendIdle ==
    /\ pc = "idle"
    /\ args = [enable_print |-> TRUE, thinking_callback |-> FALSE,
               content_callback |-> FALSE, stop_callback |-> FALSE]
    /\ origin_before = <<>>
    /\ requests = <<>>
    /\ stream_state = "none"
    /\ delivered = <<>>
    /\ thinking_log = <<>>
    /\ full_response_content = <<>>
    /\ is_thinking_started = FALSE
    /\ is_answer_started = FALSE
    /\ console = <<>>
    /\ calls = <<>>
    /\ result = <<>>

\* the conversations a dispatch is given: what add_message builds
HistoryEntries ==
    {Message(r, PyStr(<<"h","i">>)) : r \in Roles \ {ROLE_USER}}
    \cup {AddMessageResult(<<>>, ROLE_USER, PyStr(<<"h","i">>), PyStr(PathPng))[1]}
Histories == SeqsUpTo(HistoryEntries, MaxMsgs)

Init ==
    /\ messages \in Histories
    /\ add_call = <<>>
    /\ add_before = <<>>
    /\ SendIdle
    /\ InputIdle
    /\ SaveIdle

Next ==
    \/ \E enable_print \in BOOLEAN, thinking_callback \in BOOLEAN,
          content_callback \in BOOLEAN, stop_callback \in BOOLEAN, create_ok \in BOOLEAN :
          SendStart(enable_print, thinking_callback, content_callback, stop_callback,
                    create_ok)
    \/ \E chunk \in ChunksAt(Len(delivered) + 1), cb_raises \in CallbackOutcomes :
          NextChunk(chunk, cb_raises)
    \/ \E stop_raises \in BOOLEAN : StreamEnd(stop_raises)
    \/ StreamRaise

Spec == Init /\ [][Next]_vars

-----------------------------------------------------------------------------
(* The conversation log on its own: any sequence of add_message calls      *)

InitLog ==
    /\ messages = <<>>
    /\ add_call = <<>>
    /\ add_before = <<>>
    /\ SendIdle
    /\ InputIdle
    /\ SaveIdle

NextLog ==
    \E role \in Roles, content \in Contents, image_path \in ImagePathArgs :
        add_message(role, content, image_path)

SpecLog == InitLog /\ [][NextLog]_vars

-----------------------------------------------------------------------------
(* The prompt on its own                                                   *)

InitInput ==
    /\ messages = <<>>
    /\ add_call = <<>>
    /\ add_before = <<>>
    /\ SendIdle
    /\ InputIdle
    /\ SaveIdle

NextInput ==
    \/ GetInputStart
    \/ \E line \in TypedLines, filepath \in DialogResults : ReadLine(line, filepath)
    \/ EndOfInput

SpecInput == InitInput /\ [][NextInput]_vars

-----------------------------------------------------------------------------
(* The export on its own: a conversation is saved, then a file is loaded   *)

InitSave ==
    /\ messages \in SavedConversations
    /\ add_call = <<>>
    /\ add_before = <<>>
    /\ SendIdle
    /\ InputIdle
    /\ SaveIdle

NextSave ==
    \/ \E output_filename \in OutputFilenames, write_ok \in BOOLEAN :
          save_message(output_filename, write_ok)
    \/ \E input_filename \in {PathOut, PathBare, DefaultPath(messages)},
          read_ok \in BOOLEAN :
          load_message(input_filename, read_ok)

SpecSave == InitSave /\ [][NextSave]_vars

-----------------------------------------------------------------------------
(* What the properties below speak of                                      *)

\* the fragments a chunk sequence carries on each channel, in arrival order:
\* a fragment is a non-empty text in a chunk that has choices
RECURSIVE ReasoningFragments(_)
ReasoningFragments(chunks) ==
    IF chunks = <<>> THEN <<>>
    ELSE LET c == Head(chunks)
         IN  (IF c.choices /\ c.reasoning_content.t = "str" /\ c.reasoning_content.s # <<>>
              THEN <<c.reasoning_content.s>> ELSE <<>>)
             \o ReasoningFragments(Tail(chunks))
RECURSIVE AnswerFragments(_)
AnswerFragments(chunks) ==
    IF chunks = <<>> THEN <<>>
    ELSE LET c == Head(chunks)
         IN  (IF c.choices /\ c.content.t = "str" /\ c.content.s # <<>>
              THEN <<c.content.s>> ELSE <<>>)
             \o AnswerFragments(Tail(chunks))

RECURSIVE CallsOf(_, _)
\* the invocations of one observer, in order
CallsOf(cb, log) ==
    IF log = <<>> THEN <<>>
    ELSE (IF Head(log).cb = cb THEN <<Head(log)>> ELSE <<>>) \o CallsOf(cb, Tail(log))
\* the fragments one fragment observer was given, in order
FragmentsGivenTo(cb) == LET cs == CallsOf(cb, calls) IN [i \in 1..Len(cs) |-> cs[i].arg[1]]

AllObserversSupplied ==
    args.thinking_callback /\ args.content_callback /\ args.stop_callback
NoObserverRaised == \A i \in 1..Len(calls) : ~calls[i].raised
\* the stream was drained to its end and nothing raised
DrainedWithoutError == pc = "done" /\ stream_state = "exhausted" /\ NoObserverRaised
\* the transport raised: at create(), or after delivering Len(delivered) chunks
TransportRaised == pc = "done" /\ stream_state = "raised"

-----------------------------------------------------------------------------
(* C1: when the stream is drained without error, the returned answer text  *)
(* is the concatenation, in arrival order, of exactly the answer fragments *)
(* of the chunks, and the returned reasoning text that of exactly the      *)
(* reasoning fragments; neither depends on the other channel's fragments.  *)
C1_ReturnedTextIsPerChannelConcatenation ==
    DrainedWithoutError =>
        /\ Len(result) = 2
        /\ result[1] = PyStr(Join(AnswerFragments(delivered)))
        /\ result[2] = PyStr(Join(ReasoningFragments(delivered)))

\* a drained run whose chunks interleave both channels
C1_Witness ==
    /\ DrainedWithoutError
    /\ Len(AnswerFragments(delivered)) >= 2
    /\ Len(ReasoningFragments(delivered)) >= 1
    /\ result[1].s # <<>> /\ result[2].s # <<>>

C3_TransportFailureNoPartialNoStop ==
    TransportRaised =>
        /\ result = Failure
        /\ CallsOf("stop_callback", calls) = <<>>
        /\ (AllObserversSupplied /\ NoObserverRaised) =>
              /\ FragmentsGivenTo("thinking_callback") = ReasoningFragments(delivered)
              /\ FragmentsGivenTo("content_callback") = AnswerFragments(delivered)

\* the transport raised mid-stream, after fragments of both channels were seen
C3_Witness ==
    /\ TransportRaised
    /\ AllObserversSupplied
    /\ Len(delivered) = MaxChunks
    /\ FragmentsGivenTo("thinking_callback") # <<>>
    /\ FragmentsGivenTo("content_callback") # <<>>

(* C4: the message list send_message submits to the transport is exactly   *)
(* the subsequence of the history's entries whose role is system, user or  *)
(* assistant, in their original order and with their content unchanged; no *)
(* thinking or debug entry is ever submitted.                              *)
IsTransportEntry(msg) == msg.role \in {"system", "user", "assistant"}
C4_SubmittedIsValidRoleSubsequence ==
    pc # "idle" =>
        /\ requests # <<>>
        /\ \A i \in 1..Len(requests) :
              /\ requests[i] = SelectSeq(origin_before, IsTransportEntry)
              /\ \A j \in 1..Len(requests[i]) :
                    requests[i][j].role \notin {"thinking", "debug"}

\* a history with a local-only entry and a multi-part user entry: only the
\* second is submitted
C4_Witness ==
    /\ pc # "idle"
    /\ Len(origin_before) = 2
    /\ origin_before[1].role \in {"thinking", "debug"}
    /\ origin_before[2].role = "user" /\ origin_before[2].content.t = "list"
    /\ requests = << <<origin_before[2]>> >>

(* C5: send_message never mutates the history it is given: after any       *)
(* dispatch, successful or failed, the caller's list has the same length   *)
(* and the same entries, thinking and debug entries included.              *)
C5_HistoryUntouched ==
    pc # "idle" =>
        /\ Len(messages) = Len(origin_before)
        /\ messages = origin_before

\* a failed dispatch on a history that holds a thinking entry
C5_Witness ==
    /\ pc = "done"
    /\ result = Failure
    /\ \E i \in 1..Len(messages) : messages[i].role = "thinking"
    /\ Len(requests[1]) < Len(messages)

\* the numbers of the chunks that carry a fragment of each channel
ReasoningChunkNumbers(chunks) ==
    SelectSeq([i \in 1..Len(chunks) |-> i],
              LAMBDA i : chunks[i].choices /\ chunks[i].reasoning_content.t = "str"
                         /\ chunks[i].reasoning_content.s # <<>>)
AnswerChunkNumbers(chunks) ==
    SelectSeq([i \in 1..Len(chunks) |-> i],
              LAMBDA i : chunks[i].choices /\ chunks[i].content.t = "str"
                         /\ chunks[i].content.s # <<>>)
ChunkNumbersOf(cb) == LET cs == CallsOf(cb, calls) IN [i \in 1..Len(cs) |-> cs[i].chunk]

C9_CreateCalledExactlyOnce ==
    /\ pc = "idle" => requests = <<>>
    /\ pc # "idle" => Len(requests) = 1
    /\ TransportRaised => (result = Failure /\ Len(requests) = 1)

\* the request itself was refused
C9_Witness ==
    /\ TransportRaised
    /\ delivered = <<>>
    /\ console = <<ErrorLine>>
    /\ Len(requests) = 1

\* the last add_message call was given an image path (a non-empty one)
CalledWithImage == add_call # <<>> /\ add_call[1].image_path.t = "str"
                                   /\ add_call[1].image_path.s # <<>>
\* the files that cannot be read, and those whose format is not supported
UnreadableFiles == {PathGone, PathDir}
UnsupportedFormatFiles == {PathBmp}

(* C7: after any sequence of add_message calls from an empty conversation, *)
(* every message that holds an image part has role user; a call with an    *)
(* image path and another role appends nothing.                            *)
C7_ImagePartsOnlyInUserMessages ==
    /\ \A i \in 1..Len(messages) : HasImagePart(messages[i]) => messages[i].role = "user"
    /\ (CalledWithImage /\ add_call[1].role # "user") => messages = add_before

\* an assistant call with a readable image, made on a conversation that
\* already holds a user image message
C7_Witness ==
    /\ CalledWithImage
    /\ add_call[1].role = "assistant"
    /\ add_call[1].image_path.s = PathPng
    /\ Len(messages) = 1
    /\ HasImagePart(messages[1])

(* C8 as stated: given an image file that is unreadable or of an           *)
(* unsupported format, add_message aborts the append and leaves the        *)
(* conversation exactly as it was.                                         *)
C8_AbortsOnUnreadableOrUnsupported ==
    (CalledWithImage
     /\ add_call[1].image_path.s \in UnreadableFiles \cup UnsupportedFormatFiles)
        => messages = add_before

(* C8, amended: given an image file that cannot be read (not found, or an  *)
(* I/O error), add_message aborts the append and leaves the conversation   *)
(* exactly as it was; a readable file of an unsupported format is not      *)
(* refused: in a user call it is appended as an image/jpeg data URL.       *)
C8_AbortsOnUnreadableOnly ==
    /\ (CalledWithImage /\ add_call[1].image_path.s \in UnreadableFiles)
          => messages = add_before
    /\ (CalledWithImage /\ add_call[1].role = "user"
        /\ add_call[1].image_path.s \in UnsupportedFormatFiles)
          => /\ Len(messages) = Len(add_before) + 1
             /\ SubSeq(messages, 1, Len(add_before)) = add_before
             /\ messages[Len(messages)].role = "user"
             /\ HasImagePart(messages[Len(messages)])
             /\ SubSeq(messages[Len(messages)].content.parts[2].url, 1, 3)
                   = <<"data:", "image/jpeg", ";base64,">>

\* a user call with a missing file, on a conversation that is not empty
C8_Witness ==
    /\ CalledWithImage
    /\ add_call[1].role = "user"
    /\ add_call[1].image_path.s = PathGone
    /\ add_before # <<>>
    /\ messages = add_before

\* the lines that are commands once trimmed and case-folded
CommandLines ==
    { <<"/","i","m","a","g","e">>,
      <<" ","/","I","m","a","g","e","\t">>,
      <<"/","F","I","L","E">> }
IsTextLine(line) == line \notin CommandLines
IsCommandLine(line) == line \in CommandLines

(* C10: in get_input a line that is /image or /file after trimming and     *)
(* case-folding is a command and is never added to the accumulated text;   *)
(* on such a line the file dialog is invoked; if a path is selected        *)
(* get_input returns at once with the text accumulated so far and that     *)
(* path; if the dialog is cancelled line capture resumes with the          *)
(* accumulated lines kept; on end-of-input it returns the accumulated text *)
(* and no path.                                                            *)
C10_CommandsOpenDialogAndAreNotText ==
    /\ lines = SelectSeq(typed, IsTextLine)
    /\ Len(dialogs) = Len(SelectSeq(typed, IsCommandLine))
    /\ \A i \in 1..Len(dialogs) :
          dialogs[i] # <<>> =>
              /\ i = Len(dialogs)
              /\ IsCommandLine(typed[Len(typed)])
              /\ gi_pc = "done"
              /\ gi_result = <<PyStr(JoinLines(SelectSeq(typed, IsTextLine))),
                               PyStr(dialogs[i])>>
    /\ (gi_pc = "done" /\ (dialogs = <<>> \/ dialogs[Len(dialogs)] = <<>>)) =>
          gi_result = <<PyStr(JoinLines(SelectSeq(typed, IsTextLine))), PyNone>>
    /\ (typed # <<>> /\ gi_result = <<>>) => gi_pc = "reading"

\* a text line, a cancelled dialog, then a dialog with a selection
C10_Witness ==
    /\ gi_pc = "done"
    /\ Len(typed) = 3
    /\ typed[1] = <<"h","i">>
    /\ dialogs = <<<<>>, PathPng>>
    /\ gi_result = <<PyStr(<<"h","i">>), PyStr(PathPng)>>

(* C11: get_input takes lines until the user enters an empty line or EOF:  *)
(* an empty input line ends the capture and get_input returns the text     *)
(* accumulated before it.                                                  *)
C11_EmptyLineEndsCapture ==
    \A i \in 1..Len(typed) :
        typed[i] = <<>> =>
            /\ i = Len(typed)
            /\ gi_pc = "done"
            /\ gi_result = <<PyStr(JoinLines(SelectSeq(SubSeq(typed, 1, i - 1), IsTextLine))),
                             PyNone>>


\* load_message read the file that save_message wrote
LoadedSavedFile ==
    /\ sv_pc = "loaded"
    /\ disk_file # <<>>
    /\ load_call[1].input_filename = disk_file[1].path
    /\ load_call[1].read_ok

(* C12: for every conversation (any role, thinking and debug included,     *)
(* plain-text or multi-part content with an embedded base64 image data     *)
(* URI), load_message applied to the file written by save_message returns  *)
(* a message list identical to the one saved, in the same order.           *)
C12_SaveLoadRoundTrip ==
    LoadedSavedFile => loaded[1] = MessagesObject(save_call[1].messages)

\* a round trip of a conversation with an image message and a debug message
\* whose text has quotes, backslashes and control characters
C12_Witness ==
    /\ LoadedSavedFile
    /\ \E i \in 1..Len(messages) : HasImagePart(messages[i])
    /\ \E i \in 1..Len(messages) :
          messages[i] = Message(ROLE_DEBUG, PyStr(SpecialText))
    /\ loaded[1].items # <<>>

\* where on the console a text was printed, and where the fragments of a
\* channel were echoed
PrintedAt(text) == {i \in 1..Len(console) : console[i] = text}
ReasoningEchoedAt ==
    {i \in 1..Len(console) : \E n \in 1..Len(delivered) : console[i] = ReasoningText(n)}
AnswerEchoedAt ==
    {i \in 1..Len(console) : \E n \in 1..Len(delivered) : console[i] = AnswerText(n)}

(* C13: with echo enabled the thinking marker is printed exactly once per  *)
(* run, immediately before the first reasoning fragment echoed, and never  *)
(* when no reasoning fragment arrives; the answer marker is printed at     *)
(* most once, immediately before the first answer fragment, and exactly    *)
(* when a reasoning fragment was observed before that first answer         *)
(* fragment. With echo disabled neither marker is printed.                 *)
C13_MarkersOnceBeforeFirstFragment ==
    IF args.enable_print
    THEN /\ Cardinality(ReasoningEchoedAt) = Len(ReasoningFragments(delivered))
         /\ Cardinality(PrintedAt(ThinkingMarker))
               = IF ReasoningFragments(delivered) = <<>> THEN 0 ELSE 1
         /\ \A i \in PrintedAt(ThinkingMarker) :
               /\ i + 1 \in ReasoningEchoedAt
               /\ \A j \in ReasoningEchoedAt : j > i
         /\ Cardinality(PrintedAt(AnswerMarker)) <= 1
         /\ \A i \in PrintedAt(AnswerMarker) :
               /\ i + 1 \in AnswerEchoedAt
               /\ \A j \in AnswerEchoedAt : j > i
         /\ PrintedAt(AnswerMarker) # {}
               <=> \E a \in AnswerEchoedAt :
                      /\ \A b \in AnswerEchoedAt : a <= b
                      /\ \E r \in ReasoningEchoedAt : r < a
    ELSE /\ PrintedAt(ThinkingMarker) = {}
         /\ PrintedAt(AnswerMarker) = {}

\* an echoed run with both markers, and a second answer fragment after them
C13_Witness ==
    /\ pc = "done"
    /\ args.enable_print
    /\ PrintedAt(ThinkingMarker) # {}
    /\ PrintedAt(AnswerMarker) # {}
    /\ Cardinality(AnswerEchoedAt) >= 2

\* one or two of the three observers were supplied
PartialObserverSet ==
    /\ args.thinking_callback \/ args.content_callback \/ args.stop_callback
    /\ ~AllObserversSupplied

(* C14: when only one or two of the three observers are supplied,          *)
(* send_message treats the set as absent: no supplied observer is invoked  *)
(* during or after the run, no error comes of the partial set, and the     *)
(* accumulated (answer, reasoning) pair is still returned.                 *)
C14_PartialObserverSetIsAbsent ==
    PartialObserverSet =>
        /\ calls = <<>>
        /\ (pc = "done" /\ result = Failure) => stream_state = "raised"
        /\ (pc = "done" /\ stream_state = "exhausted") =>
              result = ReturnPair(Join(AnswerFragments(delivered)),
                                  Join(ReasoningFragments(delivered)))

\* a drained run given only thinking_callback and stop_callback, with
\* fragments on both channels
C14_Witness ==
    /\ args.thinking_callback /\ ~args.content_callback /\ args.stop_callback
    /\ pc = "done" /\ stream_state = "exhausted"
    /\ ReasoningFragments(delivered) # <<>>
    /\ AnswerFragments(delivered) # <<>>
    /\ result # Failure

\* a chunk that carries no fragment on either channel
CarriesNoFragment(chunk) ==
    ReasoningFragments(<<chunk>>) = <<>> /\ AnswerFragments(<<chunk>>) = <<>>
\* the loop takes a chunk without fragments from the stream
SkipsChunk ==
    /\ Len(delivered') = Len(delivered) + 1
    /\ CarriesNoFragment(delivered'[Len(delivered')])

(* C15: a chunk that carries neither a reasoning fragment nor an answer    *)
(* fragment (no choices, or absent or empty fragment fields) is skipped    *)
(* without error and with no observable effect: both accumulators, both    *)
(* started flags and the console are unchanged, no observer is invoked     *)
(* for it, and the run goes on.                                            *)
C15_ChunkWithoutFragmentHasNoEffect ==
    [][SkipsChunk =>
          /\ UNCHANGED <<thinking_log, full_response_content, is_thinking_started,
                         is_answer_started, console, calls, result>>
          /\ pc' = "streaming"]_vars

\* a run that went on after skipping a chunk with empty fragment fields that
\* came after a chunk with fragments
C15_Witness ==
    /\ pc = "done" /\ stream_state = "exhausted"
    /\ Len(delivered) = 2
    /\ ~CarriesNoFragment(delivered[1])
    /\ delivered[2] = Chunk(TRUE, PyStr(<<>>), PyStr(<<>>))
    /\ result = ReturnPair(Join(AnswerFragments(<<delivered[1]>>)),
                           Join(ReasoningFragments(<<delivered[1]>>)))

(* C16: an exception raised by an observer is handled like a transport    *)
(* failure: if thinking_callback or content_callback raises, send_message  *)
(* takes no further chunk, never invokes stop_callback and returns         *)
(* (None, None); if stop_callback raises after the stream was drained,     *)
(* send_message returns (None, None) too. The call returns in every case.  *)
C16_ObserverExceptionGivesFailure ==
    \A i \in 1..Len(calls) :
        calls[i].raised =>
            /\ i = Len(calls)
            /\ pc = "done"
            /\ result = Failure
            /\ calls[i].cb \in {"thinking_callback", "content_callback"} =>
                  /\ CallsOf("stop_callback", calls) = <<>>
                  /\ Len(delivered) = calls[i].chunk
                  /\ stream_state = "open"
            /\ calls[i].cb = "stop_callback" => stream_state = "exhausted"

\* content_callback raised on the answer fragment of the first chunk, after
\* thinking_callback had taken the reasoning fragment of that chunk
C16_Witness ==
    /\ Len(calls) = 2
    /\ calls[1].cb = "thinking_callback" /\ ~calls[1].raised
    /\ calls[2].cb = "content_callback" /\ calls[2].raised
    /\ Len(delivered) = 1
    /\ result = Failure

=============================================================================
